---- MODULE Spec2Model ----
(***************************************************************************)
(* The reservation engine of fast_pass: reserveSeat (cache script path and *)
(* locked path), the settlement worker processNextReservation, confirm and *)
(* cancel, the expiry sweeper and the cache warm-up of getSeats, over a    *)
(* volatile store (cache entries, queue, locks) and a durable store (seat  *)
(* rows, reservation rows, the performance's availableSeats).              *)
(*                                                                         *)
(* Every await of the source is an interleaving point.  A durable          *)
(* transaction runs at PostgreSQL's default isolation (READ COMMITTED; the *)
(* source sets none): its leading findUnique is one step and its writes    *)
(* with the commit are a second step.  The writes of one transaction lock  *)
(* the rows they touch until commit, and a conditional update is evaluated *)
(* against the latest committed row, so the writes of two transactions on  *)
(* the same seat are serialised and the second step is atomic.             *)
(***************************************************************************)
EXTENDS Integers, Sequences, FiniteSets, TLC

\* ------------------------------------------------------------------ bounds
MaxIntents == 2       \* intents appended to the queue
MaxTime == 6          \* the clock stops here (minutes)
TickMinutes == 6      \* granularity of the clock: more than ExpiryMinutes
MaxBusy == 2          \* calls and background runs in flight at one time
MaxResend == 1        \* rpush commands sent twice (SpecResend)

\* ------------------------------------------------------- program constants
ExpiryMinutes == 5    \* handleExpiredReservations: now - 5 * 60 * 1000
BatchLimit == 50      \* handleReservationQueue: for (let i = 0; i < 50; i++)

Seats == {"s1"}
\* A seat id of no Seat row, and the seat ids a request can name.
MissingSeat == "s0"
SeatIds == Seats \cup {MissingSeat}
Clients == {"u1", "u2"}
Workers == {"w1", "w2"}
ApiTxs == {"t1", "t2"}

SeatStatus == {"AVAILABLE", "HELD", "OCCUPIED"}
ReservationStatus == {"PENDING", "CONFIRMED", "CANCELLED"}

\* crypto.randomUUID(): a value no other call draws.  It is the serial
\* number of the call, tagged with the user, the seat and the time of the
\* call that drew it, so that a row can be compared with its admission.
Uuid(n, userId, seatId, t) == <<n, userId, seatId, t>>
NoId == <<>>
NoHolder == "-"
MissingId == Uuid(0, "-", "-", 0)

VARIABLES
  seats,          \* durable Seat rows: seat id -> [status, version]
  availableSeats, \* durable Performance.availableSeats
  reservations,   \* durable Reservation rows (a set of records)
  cache,          \* seat:{id}:status, "none" when the key is absent
  queue,          \* queue:reservations, a list of JSON strings
  locks,          \* locks:seats:{id}: the holder's value, "-" when free
  calls,          \* reserveSeat calls in flight, one per client; rival is
                  \* history: a call for the same seat returned PENDING
                  \* while this one was in flight; fallback is history:
                  \* the call is on the locked path after a script error
  workers,        \* handleReservationQueue ticks, one per worker: the
                  \* intent of the processNextReservation run in flight
                  \* and i, the loop counter of the tick
  txs,            \* confirmReservation / cancelReservation calls
  sweep,          \* expireOverdueReservations: found is overdueReservations,
                  \* todo the part of it the loop has not reached; base is
                  \* history: availableSeats when the run started
  warm,           \* getSeats
  last,           \* what the call that ended in the last step reported
  now,            \* the clock
  nextId,         \* the serial number of the next UUID
  resent,         \* the rpush commands that were sent twice
  staleAdmits,    \* history: ids admitted by the script while the seat
                  \* was HELD or OCCUPIED in the durable store
  isProcessing    \* the reentrancy flag of the guarded scheduler

vars == <<seats, availableSeats, reservations, cache, queue, locks, calls,
          workers, txs, sweep, warm, last, now, nextId, resent, staleAdmits,
          isProcessing>>

durable == <<seats, availableSeats, reservations>>

\* ------------------------------------------------------------ conversions
\* Date.prototype.toISOString and new Date(iso): a timestamp and its text.
ToISOString(t) == [iso |-> t]
DateFromISO(x) == x.iso

\* JSON.stringify of ReservationQueueData (keys in insertion order) and
\* JSON.parse of the queue entry.
JsonStringify(d) == <<d.id, d.userId, d.seatId, d.reservedAt>>
JsonParse(j) == [id |-> j[1], userId |-> j[2], seatId |-> j[3], reservedAt |-> j[4]]

NoData == [id |-> NoId, userId |-> "-", seatId |-> "-", reservedAt |-> ToISOString(0)]

\* ------------------------------------------------------------------- Init
IdleCall == [pc |-> "idle", seatId |-> "-", at |-> 0, seen |-> "-", rival |-> FALSE,
             fallback |-> FALSE]
IdleWorker == [pc |-> "idle", data |-> NoData, version |-> 0, i |-> 0]
IdleTx == [pc |-> "idle", op |-> "-", id |-> NoId, seatId |-> "-"]
IdleSweep == [pc |-> "idle", found |-> {}, todo |-> {}, id |-> NoId, seatId |-> "-",
              count |-> 0, base |-> 0]
IdleWarm == [pc |-> "idle", rows |-> <<>>]

\* The report of the call that ended in the last step: the operation and
\* the value returned or the exception thrown.
Event(op, out) == [op |-> op, out |-> out]
NoEvent == Event("-", "-")

\* A performance is created with one AVAILABLE seat row (version 0) per
\* seat; availableSeats is the value of the request, 0 when it is omitted.
Init ==
  /\ seats = [s \in Seats |-> [status |-> "AVAILABLE", version |-> 0]]
  /\ availableSeats \in {0, Cardinality(Seats)}
  /\ reservations = {}
  /\ cache = [s \in SeatIds |-> "none"]
  /\ queue = <<>>
  /\ locks = [s \in SeatIds |-> NoHolder]
  /\ calls = [c \in Clients |-> IdleCall]
  /\ workers = [w \in Workers |-> IdleWorker]
  /\ txs = [t \in ApiTxs |-> IdleTx]
  /\ sweep = IdleSweep
  /\ warm = IdleWarm
  /\ last = NoEvent
  /\ now = 0
  /\ nextId = 1
  /\ resent = 0
  /\ staleAdmits = {}
  /\ isProcessing = FALSE

\* The calls and background runs that are between two of their awaits.
Busy ==
  Cardinality({c \in Clients : calls[c].pc # "idle"})
  + Cardinality({w \in Workers : workers[w].pc # "idle"})
  + Cardinality({t \in ApiTxs : txs[t].pc # "idle"})
  + (IF sweep.pc # "idle" THEN 1 ELSE 0)
  + (IF warm.pc # "idle" THEN 1 ELSE 0)

\* ------------------------------------------------------------ reserveSeat
\* The Lua script: 'MISS' without an entry, 'FAIL' on an entry other than
\* AVAILABLE, else rpush + set HELD and 'OK'.
ScriptResult(status) ==
  IF status = "none" THEN "MISS"
  ELSE IF status # "AVAILABLE" THEN "FAIL"
  ELSE "OK"

\* What one path of reserveSeat decides on a seat, the cache entry it
\* leaves and the number of intents it appends.
PathResult(decision, entry, appended) ==
  [decision |-> decision, cache |-> entry, appended |-> appended]

\* The script path on a cache entry (lines 55-66, 97-108): 'OK' enqueues
\* and marks the entry HELD, 'FAIL' rejects and leaves the entry, 'MISS'
\* decides nothing.
ScriptPath(entry) ==
  IF ScriptResult(entry) = "OK" THEN PathResult("ENQUEUE", "HELD", 1)
  ELSE IF ScriptResult(entry) = "FAIL" THEN PathResult("REJECT", entry, 0)
  ELSE PathResult("MISS", entry, 0)

\* The locked path once it holds the lock (lines 131-157): it never reads
\* the cache entry; a seat that is not AVAILABLE in the durable store is
\* rejected and its status written to the entry, an AVAILABLE one is
\* enqueued and the entry marked HELD.
LockedPath(entry, dbStatus) ==
  IF dbStatus # "AVAILABLE" THEN PathResult("REJECT", dbStatus, 0)
  ELSE PathResult("ENQUEUE", "HELD", 1)

\* reservationData (lines 77-83) of the call of user c for seat s that
\* started at time t.  The UUID is drawn when the call starts and nothing
\* reads it before the intent is appended, so its serial number is counted
\* at the append.
ReservationData(c, s, t) ==
  [id |-> Uuid(nextId, c, s, t), userId |-> c, seatId |-> s,
   reservedAt |-> ToISOString(t)]

InFlight(c, s) == calls[c].pc # "idle" /\ calls[c].seatId = s

\* History: the calls for seat s that are in flight when the call of c
\* returns PENDING learn that a call they raced with was admitted.
Rivals(c, s) ==
  [d \in Clients |->
     IF d # c /\ InFlight(d, s) THEN [calls[d] EXCEPT !.rival = TRUE] ELSE calls[d]]

\* The calls on the locked path that have not appended yet: the model
\* admits a call only while an intent is left for each of them.
Pending ==
  Cardinality({c \in Clients : calls[c].pc \in {"acquire", "dbcheck", "push"}})

\* A variant of the fast path without the script: the status is read by a
\* GET of its own, and the append and the mark follow whatever the entry
\* has become since.
ReserveScriptBlind(c, s) ==
  /\ calls[c].pc = "idle"
  /\ Busy < MaxBusy
  /\ IF cache[s] # "none"
       THEN /\ nextId + Pending <= MaxIntents
            /\ queue' = Append(queue, JsonStringify(ReservationData(c, s, now)))
            /\ nextId' = nextId + 1
            /\ cache' = [cache EXCEPT ![s] = "HELD"]
            /\ calls' = Rivals(c, s)
            /\ staleAdmits' = IF seats[s].status # "AVAILABLE"
                                THEN staleAdmits \cup {Uuid(nextId, c, s, now)}
                                ELSE staleAdmits
            /\ last' = Event("reserveSeat", "PENDING")
       ELSE /\ nextId + Pending <= MaxIntents
            /\ calls' = [calls EXCEPT ![c] =
                           [IdleCall EXCEPT !.pc = "acquire", !.seatId = s, !.at = now]]
            /\ last' = NoEvent
            /\ UNCHANGED <<queue, nextId, cache, staleAdmits, isProcessing>>
  /\ UNCHANGED <<durable, locks, workers, txs, sweep, warm, now, resent, isProcessing>>

\* reserveSeat up to the answer of the script (lines 72-110).
ReserveScript(c, s) ==
  /\ calls[c].pc = "idle"
  /\ Busy < MaxBusy
  /\ LET r == ScriptPath(cache[s])
     IN IF r.decision = "ENQUEUE"
          THEN /\ nextId + Pending <= MaxIntents
               /\ queue' = Append(queue, JsonStringify(ReservationData(c, s, now)))
               /\ nextId' = nextId + 1
               /\ cache' = [cache EXCEPT ![s] = r.cache]
               /\ calls' = Rivals(c, s)
               /\ staleAdmits' = IF seats[s].status # "AVAILABLE"
                                   THEN staleAdmits \cup {Uuid(nextId, c, s, now)}
                                   ELSE staleAdmits
               /\ last' = Event("reserveSeat", "PENDING")
          ELSE IF r.decision = "REJECT"
            THEN /\ last' = Event("reserveSeat", "ConflictCache")
                 /\ UNCHANGED <<queue, nextId, cache, calls, staleAdmits, isProcessing>>
          ELSE /\ nextId + Pending <= MaxIntents
               /\ calls' = [calls EXCEPT ![c] =
                              [IdleCall EXCEPT !.pc = "acquire", !.seatId = s,
                                               !.at = now]]
               /\ last' = NoEvent
               /\ UNCHANGED <<queue, nextId, cache, staleAdmits, isProcessing>>
  /\ UNCHANGED <<durable, locks, workers, txs, sweep, warm, now, resent, isProcessing>>

\* The eval throws an error that is no ConflictException: it is logged and
\* the call goes on to the locked path (lines 111-118).
ReserveScriptError(c, s) ==
  /\ calls[c].pc = "idle"
  /\ Busy < MaxBusy
  /\ nextId + Pending <= MaxIntents
  /\ calls' = [calls EXCEPT ![c] =
                 [IdleCall EXCEPT !.pc = "acquire", !.seatId = s, !.at = now,
                                  !.fallback = TRUE]]
  /\ last' = NoEvent
  /\ UNCHANGED <<durable, cache, queue, locks, workers, txs, sweep, warm, now, nextId,
                 resent, staleAdmits, isProcessing>>

\* A variant of the acquisition that does not test whether the key is
\* set: it takes the lock from its holder.
ReserveAcquireSteal(c) ==
  /\ calls[c].pc = "acquire"
  /\ locks' = [locks EXCEPT ![calls[c].seatId] = c]
  /\ calls' = [calls EXCEPT ![c].pc = "dbcheck"]
  /\ last' = NoEvent
  /\ UNCHANGED <<durable, cache, queue, workers, txs, sweep, warm, now, nextId, resent, staleAdmits,
                 isProcessing>>

\* redlock.acquire with retryCount 0: one attempt (lines 125-128, 168-171).
\* The random value of the lock is the caller: a client has one call in
\* flight, and with it one value.
ReserveAcquire(c) ==
  /\ calls[c].pc = "acquire"
  /\ LET s == calls[c].seatId
     IN IF locks[s] = NoHolder
          THEN /\ locks' = [locks EXCEPT ![s] = c]
               /\ calls' = [calls EXCEPT ![c].pc = "dbcheck"]
               /\ last' = NoEvent
          ELSE /\ calls' = [calls EXCEPT ![c] = IdleCall]
               /\ last' = Event("reserveSeat", "ConflictLock")
               /\ UNCHANGED locks
  /\ UNCHANGED <<durable, cache, queue, workers, txs, sweep, warm, now, nextId, resent, staleAdmits,
                 isProcessing>>

\* A variant of the check without the test for a missing row: the seat is
\* rejected as one that is taken.
ReserveDbCheckNoNull(c) ==
  /\ calls[c].pc = "dbcheck"
  /\ LET s == calls[c].seatId
         st == IF s \in Seats THEN seats[s].status ELSE "OCCUPIED"
     IN calls' = [calls EXCEPT ![c].seen = st,
                               ![c].pc = IF LockedPath(cache[s], st).decision = "REJECT"
                                           THEN "setstatus" ELSE "push"]
  /\ last' = NoEvent
  /\ UNCHANGED <<durable, cache, queue, locks, workers, txs, sweep, warm, now, nextId, resent, staleAdmits,
                 isProcessing>>

\* prisma.seat.findUnique (lines 131-134): without a row the call throws
\* NotFoundException.
ReserveDbCheck(c) ==
  /\ calls[c].pc = "dbcheck"
  /\ LET s == calls[c].seatId
         st == IF s \in Seats THEN seats[s].status ELSE "NotFound"
     IN calls' = [calls EXCEPT ![c].seen = st,
                               ![c].pc = IF st = "NotFound" THEN "release"
                                         ELSE IF LockedPath(cache[s], st).decision = "REJECT"
                                           THEN "setstatus" ELSE "push"]
  /\ last' = NoEvent
  /\ UNCHANGED <<durable, cache, queue, locks, workers, txs, sweep, warm, now, nextId, resent, staleAdmits,
                 isProcessing>>

\* A variant of the write with NX: an entry that exists is left as it is.
ReserveSetStatusNx(c) ==
  /\ calls[c].pc = "setstatus"
  /\ LET s == calls[c].seatId
     IN cache' = IF cache[s] = "none"
                   THEN [cache EXCEPT ![s] = LockedPath(cache[s], calls[c].seen).cache]
                   ELSE cache
  /\ calls' = [calls EXCEPT ![c].pc = "release"]
  /\ last' = NoEvent
  /\ UNCHANGED <<durable, queue, locks, workers, txs, sweep, warm, now, nextId, resent, staleAdmits,
                 isProcessing>>

\* The seat is taken in the durable store: the cache entry is overwritten
\* with the status read and the call is rejected (lines 137-141).
ReserveSetStatus(c) ==
  /\ calls[c].pc = "setstatus"
  /\ LET s == calls[c].seatId
     IN cache' = [cache EXCEPT ![s] = LockedPath(cache[s], calls[c].seen).cache]
  /\ calls' = [calls EXCEPT ![c].pc = "release"]
  /\ last' = NoEvent
  /\ UNCHANGED <<durable, queue, locks, workers, txs, sweep, warm, now, nextId, resent, staleAdmits,
                 isProcessing>>

\* A variant of the append that writes through: it marks the seat row HELD
\* before the intent is queued.
ReservePushWriteThrough(c) ==
  /\ calls[c].pc = "push"
  /\ queue' = Append(queue, JsonStringify(ReservationData(c, calls[c].seatId, calls[c].at)))
  /\ nextId' = nextId + 1
  /\ calls' = [calls EXCEPT ![c].pc = "sethold"]
  /\ seats' = [seats EXCEPT ![calls[c].seatId].status = "HELD"]
  /\ last' = NoEvent
  /\ UNCHANGED <<availableSeats, reservations, cache, locks, workers, txs, sweep, warm,
                 now, resent, staleAdmits, isProcessing>>

\* redisClient.rpush (line 147).
ReservePush(c) ==
  /\ calls[c].pc = "push"
  /\ queue' = Append(queue, JsonStringify(ReservationData(c, calls[c].seatId, calls[c].at)))
  /\ nextId' = nextId + 1
  /\ calls' = [calls EXCEPT ![c].pc = "sethold"]
  /\ last' = NoEvent
  /\ UNCHANGED <<durable, cache, locks, workers, txs, sweep, warm, now, resent, staleAdmits,
                 isProcessing>>

\* redisClient.set(statusKey, 'HELD') (line 151).
ReserveSetHeld(c) ==
  /\ calls[c].pc = "sethold"
  /\ LET s == calls[c].seatId
     IN cache' = [cache EXCEPT ![s] = LockedPath(cache[s], calls[c].seen).cache]
  /\ calls' = [calls EXCEPT ![c].pc = "release"]
  /\ last' = NoEvent
  /\ UNCHANGED <<durable, queue, locks, workers, txs, sweep, warm, now, nextId, resent, staleAdmits,
                 isProcessing>>

\* A command of the locked path fails with a store error: findUnique, the
\* set of the status read, rpush or the set of HELD.  The error is thrown
\* again after the finally block (lines 159-172).
ReserveStoreError(c) ==
  /\ calls[c].pc \in {"dbcheck", "setstatus", "push", "sethold"}
  /\ calls' = [calls EXCEPT ![c].pc = "release", ![c].seen = "StoreError"]
  /\ last' = NoEvent
  /\ UNCHANGED <<durable, cache, queue, locks, workers, txs, sweep, warm, now, nextId,
                 resent, staleAdmits, isProcessing>>

\* What the locked path returns once the lock is released: PENDING after
\* the append, the exception thrown on the way, else the conflict found in
\* the durable store.
LockedResult(seen) ==
  IF seen = "AVAILABLE" THEN "PENDING"
  ELSE IF seen \in {"NotFound", "StoreError"} THEN seen
  ELSE "ConflictDb"

\* A variant of the release with a plain DEL of the key, whoever holds it.
ReserveReleaseDel(c) ==
  /\ calls[c].pc = "release"
  /\ LET s == calls[c].seatId
         res == LockedResult(calls[c].seen)
     IN /\ locks' = [locks EXCEPT ![s] = NoHolder]
        /\ calls' = [d \in Clients |->
             IF d = c THEN IdleCall
             ELSE IF res = "PENDING" THEN Rivals(c, s)[d] ELSE calls[d]]
        /\ last' = Event("reserveSeat", res)
  /\ UNCHANGED <<durable, cache, queue, workers, txs, sweep, warm, now, nextId, resent, staleAdmits,
                 isProcessing>>

\* lock.release() in the finally block: the lock is deleted only while it
\* still holds this call's value (lines 173-179); then the call returns.
ReserveRelease(c) ==
  /\ calls[c].pc = "release"
  /\ LET s == calls[c].seatId
         res == LockedResult(calls[c].seen)
     IN /\ locks' = IF locks[s] = c THEN [locks EXCEPT ![s] = NoHolder] ELSE locks
        /\ calls' = [d \in Clients |->
             IF d = c THEN IdleCall
             ELSE IF res = "PENDING" THEN Rivals(c, s)[d] ELSE calls[d]]
        /\ last' = Event("reserveSeat", res)
  /\ UNCHANGED <<durable, cache, queue, workers, txs, sweep, warm, now, nextId, resent, staleAdmits,
                 isProcessing>>

\* A variant of the finally block without the catch on release(): the
\* rejection replaces what the call was about to return or throw.
ReserveReleaseThrows(c) ==
  /\ calls[c].pc = "release"
  /\ calls' = [calls EXCEPT ![c] = IdleCall]
  /\ last' = Event("reserveSeat", "StoreError")
  /\ UNCHANGED <<durable, cache, queue, locks, workers, txs, sweep, warm, now, nextId,
                 resent, staleAdmits, isProcessing>>

\* lock.release() rejects: the error is logged, the lock stays until its
\* TTL runs out and the call ends as it would have (lines 175-177).
ReserveReleaseFails(c) ==
  /\ calls[c].pc = "release"
  /\ LET s == calls[c].seatId
         res == LockedResult(calls[c].seen)
     IN /\ calls' = [d \in Clients |->
             IF d = c THEN IdleCall
             ELSE IF res = "PENDING" THEN Rivals(c, s)[d] ELSE calls[d]]
        /\ last' = Event("reserveSeat", res)
  /\ UNCHANGED <<durable, cache, queue, locks, workers, txs, sweep, warm, now, nextId,
                 resent, staleAdmits, isProcessing>>

\* The process dies while the call holds the lock: nothing more of the
\* call runs, the finally block included.
ReserveCrash(c) ==
  /\ calls[c].pc \in {"dbcheck", "setstatus", "push", "sethold", "release"}
  /\ calls' = [calls EXCEPT ![c] = IdleCall]
  /\ last' = NoEvent
  /\ UNCHANGED <<durable, cache, queue, locks, workers, txs, sweep, warm, now, nextId,
                 resent, staleAdmits, isProcessing>>

\* A variant of the lock without a TTL: the key stays.
LockKept(s) ==
  /\ locks[s] # NoHolder
  /\ UNCHANGED vars

\* The 10 s TTL of a lock and the 600 s TTL of a cache entry run out.
LockExpire(s) ==
  /\ locks[s] # NoHolder
  /\ locks' = [locks EXCEPT ![s] = NoHolder]
  /\ last' = NoEvent
  /\ UNCHANGED <<durable, cache, queue, calls, workers, txs, sweep, warm, now, nextId, resent, staleAdmits,
                 isProcessing>>

CacheExpire(s) ==
  /\ cache[s] # "none"
  /\ cache' = [cache EXCEPT ![s] = "none"]
  /\ last' = NoEvent
  /\ UNCHANGED <<durable, queue, locks, calls, workers, txs, sweep, warm, now, nextId, resent, staleAdmits,
                 isProcessing>>

Tick ==
  /\ now + TickMinutes <= MaxTime
  /\ now' = now + TickMinutes
  /\ last' = NoEvent
  /\ UNCHANGED <<durable, cache, queue, locks, calls, workers, txs, sweep, warm, nextId, resent, staleAdmits,
                 isProcessing>>

\* ------------------------------------------------- the durable operations
\* The durable store after a transaction, with the outcome it reports.
Durable(out, st, rs, av) ==
  [out |-> out, seats |-> st, reservations |-> rs, availableSeats |-> av]

Unchanged(out) == Durable(out, seats, reservations, availableSeats)

\* A schema without the unique index on seatId: the primary key alone.
PrimaryKeyViolation(rows, row) ==
  \E r \in rows : r.id = row.id

\* A schema without any unique constraint on Reservation.
NoViolation(rows, row) == FALSE

\* Reservation_pkey and the unique index Reservation_seatId_key: an insert
\* fails when a row with its id or with its seatId exists.
UniqueViolation(rows, row) ==
  \E r \in rows : r.id = row.id \/ r.seatId = row.seatId

\* The row of tx.reservation.create: the fields of the intent, the
\* timestamp parsed from its text, status PENDING, paidAt null.
NewReservation(data) ==
  [id |-> data.id, userId |-> data.userId, seatId |-> data.seatId,
   status |-> "PENDING", reservedAt |-> DateFromISO(data.reservedAt),
   paidAt |-> <<>>]

\* updateMany where {id, status: 'AVAILABLE'}, without the version.
UpdateManyCountByStatus(seat, version) ==
  IF seat.status = "AVAILABLE" THEN 1 ELSE 0

\* A variant that compares against the version of the queue entry, which
\* reserveSeat never sets: the version a seat is created with.
UpdateManyCountQueued(seat, version) ==
  IF seat.version = 0 /\ seat.status = "AVAILABLE" THEN 1 ELSE 0

\* tx.seat.updateMany where {id, version, status: 'AVAILABLE'}: the number
\* of rows it updates.
UpdateManyCount(seat, version) ==
  IF seat.version = version /\ seat.status = "AVAILABLE" THEN 1 ELSE 0

\* data: {status} without version: {increment: 1}.
SeatSetSameVersion(s, status) ==
  [seats EXCEPT ![s] = [status |-> status, version |-> @.version]]

\* tx.seat.update / updateMany data: {status, version: {increment: 1}}.
SeatSet(s, status) ==
  [seats EXCEPT ![s] = [status |-> status, version |-> @.version + 1]]

\* The three writes outside a transaction: the flip to HELD stays when the
\* insert fails.
SettleTxPartial(data, version) ==
  IF UpdateManyCount(seats[data.seatId], version) = 0
    THEN Unchanged("ConflictOcc")
  ELSE IF UniqueViolation(reservations, NewReservation(data))
    THEN Durable("UniqueViolation", SeatSet(data.seatId, "HELD"), reservations,
                 availableSeats)
  ELSE Durable("ok", SeatSet(data.seatId, "HELD"),
               reservations \cup {NewReservation(data)}, availableSeats - 1)

\* The three writes with an insert that never fails.
SettleTxNoIndex(data, version) ==
  IF UpdateManyCount(seats[data.seatId], version) = 0
    THEN Unchanged("ConflictOcc")
  ELSE Durable("ok", SeatSet(data.seatId, "HELD"),
               reservations \cup {NewReservation(data)}, availableSeats - 1)

\* The writes of the settlement transaction (lines 203-238): the
\* conditional update, the insert and the decrement commit together, and
\* an exception in any of them rolls all of them back.
SettleTx(data, version) ==
  IF UpdateManyCount(seats[data.seatId], version) = 0
    THEN Unchanged("ConflictOcc")
  ELSE IF UniqueViolation(reservations, NewReservation(data))
    THEN Unchanged("UniqueViolation")
  ELSE Durable("ok", SeatSet(data.seatId, "HELD"),
               reservations \cup {NewReservation(data)}, availableSeats - 1)

\* A variant of confirmReservation that updates the reservation and not
\* the seat.
ConfirmTxRowOnly(id, seatId) ==
  Durable("ok", seats,
          {IF r.id = id THEN [r EXCEPT !.status = "CONFIRMED", !.paidAt = <<now>>]
           ELSE r : r \in reservations},
          availableSeats)

\* The writes of confirmReservation (lines 271-286).
ConfirmTx(id, seatId) ==
  Durable("ok", SeatSet(seatId, "OCCUPIED"),
          {IF r.id = id THEN [r EXCEPT !.status = "CONFIRMED", !.paidAt = <<now>>]
           ELSE r : r \in reservations},
          availableSeats)

\* The writes of cancelReservation (lines 311-329).
CancelTx(id, seatId) ==
  Durable("ok", SeatSet(seatId, "AVAILABLE"),
          {IF r.id = id THEN [r EXCEPT !.status = "CANCELLED"] ELSE r :
             r \in reservations},
          availableSeats + 1)

\* findUnique and the NotFound guard alone, without the PENDING guard.
ReservationGuardFound(id) ==
  IF \A r \in reservations : r.id # id THEN "NotFound" ELSE "ok"

\* findUnique on a reservation and the two guards that follow it in
\* confirmReservation and cancelReservation.
ReservationGuard(id) ==
  IF \A r \in reservations : r.id # id THEN "NotFound"
  ELSE IF \E r \in reservations : r.id = id /\ r.status # "PENDING" THEN "Conflict"
  ELSE "ok"

SeatOfReservation(id) == (CHOOSE r \in reservations : r.id = id).seatId

Commit(r) ==
  /\ seats' = r.seats
  /\ reservations' = r.reservations
  /\ availableSeats' = r.availableSeats

\* --------------------------------------------------- processNextReservation
\* handleReservationQueue: the tick after one run of
\* processNextReservation.  The loop goes on after a run that returned
\* true while i + 1 < 50, and breaks after a run that returned false.
AfterRun(w, processed) ==
  IF processed /\ workers[w].i + 1 < BatchLimit
    THEN [IdleWorker EXCEPT !.pc = "pop", !.i = workers[w].i + 1]
  ELSE IdleWorker

\* A variant of the run that reads the head of the queue without removing
\* it (lindex in place of lpop).
WorkerPeek(w) ==
  /\ workers[w].pc \in {"idle", "pop"}
  /\ workers[w].pc = "idle" => (queue # <<>> /\ Busy < MaxBusy)
  /\ workers' = [workers EXCEPT ![w] =
                   IF queue = <<>> THEN AfterRun(w, FALSE)
                   ELSE [pc |-> "read", data |-> JsonParse(Head(queue)),
                         version |-> 0, i |-> workers[w].i]]
  /\ last' = NoEvent
  /\ UNCHANGED <<durable, cache, queue, locks, calls, txs, sweep, warm, now, nextId, resent, staleAdmits,
                 isProcessing>>

\* lpop and JSON.parse (lines 184-188), at the start of a tick or in its
\* loop; on an empty queue the run returns false and the tick ends.
WorkerPop(w) ==
  /\ workers[w].pc \in {"idle", "pop"}
  /\ workers[w].pc = "idle" => (queue # <<>> /\ Busy < MaxBusy)
  /\ IF queue = <<>>
       THEN /\ workers' = [workers EXCEPT ![w] = AfterRun(w, FALSE)]
            /\ UNCHANGED queue
       ELSE /\ queue' = Tail(queue)
            /\ workers' = [workers EXCEPT ![w] =
                             [pc |-> "read", data |-> JsonParse(Head(queue)),
                              version |-> 0, i |-> workers[w].i]]
  /\ last' = NoEvent
  /\ UNCHANGED <<durable, cache, locks, calls, txs, sweep, warm, now, nextId, resent, staleAdmits,
                 isProcessing>>

\* tx.seat.findUnique and the status guard (lines 191-199).
WorkerRead(w) ==
  /\ workers[w].pc = "read"
  /\ LET seat == seats[workers[w].data.seatId]
     IN IF seat.status # "AVAILABLE"
          THEN /\ workers' = [workers EXCEPT ![w] = AfterRun(w, FALSE)]
               /\ last' = Event("processNextReservation", "ConflictStatus")
          ELSE /\ workers' = [workers EXCEPT ![w].pc = "write",
                                             ![w].version = seat.version]
               /\ last' = NoEvent
  /\ UNCHANGED <<durable, cache, queue, locks, calls, txs, sweep, warm, now, nextId, resent, staleAdmits,
                 isProcessing>>

\* The writes and the commit, or the rollback (lines 203-250): the run
\* returns true after the commit and false after an exception.
WorkerCommit(w) ==
  /\ workers[w].pc = "write"
  /\ LET r == SettleTx(workers[w].data, workers[w].version)
     IN /\ Commit(r)
        /\ last' = Event("processNextReservation", r.out)
        /\ workers' = [workers EXCEPT ![w] = AfterRun(w, r.out = "ok")]
  /\ UNCHANGED <<cache, queue, locks, calls, txs, sweep, warm, now, nextId, resent, staleAdmits,
                 isProcessing>>

\* A statement of the transaction fails with a store error: the
\* transaction is rolled back, the error is logged and the run returns
\* false (lines 244-250).  The intent was removed by lpop and is not put
\* back.
WorkerStoreError(w) ==
  /\ workers[w].pc \in {"read", "write"}
  /\ workers' = [workers EXCEPT ![w] = AfterRun(w, FALSE)]
  /\ last' = Event("processNextReservation", "StoreError")
  /\ UNCHANGED <<durable, cache, queue, locks, calls, txs, sweep, warm, now, nextId,
                 resent, staleAdmits, isProcessing>>

\* ------------------------------------ confirmReservation, cancelReservation
\* The ids a caller can name: those of the rows, and one of no row.
KnownIds == {r.id : r \in reservations} \cup {MissingId}

\* The call, its findUnique and its guards.
TxBegin(t, op, id) ==
  /\ txs[t].pc = "idle"
  /\ id \in KnownIds
  /\ Busy < MaxBusy
  /\ IF ReservationGuard(id) = "ok"
       THEN /\ txs' = [txs EXCEPT ![t] = [pc |-> "write", op |-> op, id |-> id,
                                          seatId |-> SeatOfReservation(id)]]
            /\ last' = NoEvent
       ELSE /\ last' = Event(op, ReservationGuard(id))
            /\ UNCHANGED txs
  /\ UNCHANGED <<durable, cache, queue, locks, calls, workers, sweep, warm, now, nextId, resent, staleAdmits,
                 isProcessing>>

\* The writes and the commit.
TxCommit(t) ==
  /\ txs[t].pc = "write"
  /\ LET r == IF txs[t].op = "confirmReservation"
                THEN ConfirmTx(txs[t].id, txs[t].seatId)
                ELSE CancelTx(txs[t].id, txs[t].seatId)
     IN /\ Commit(r)
        /\ last' = Event(txs[t].op, r.out)
  /\ txs' = [txs EXCEPT ![t] = IdleTx]
  /\ UNCHANGED <<cache, queue, locks, calls, workers, sweep, warm, now, nextId, resent, staleAdmits,
                 isProcessing>>

\* ------------------------------------------------ expireOverdueReservations
\* handleExpiredReservations: the threshold is five minutes before now.
Threshold == now - ExpiryMinutes

\* findMany: the PENDING reservations reserved before the threshold.
Overdue(thresholdDate) ==
  {r.id : r \in {x \in reservations :
                   x.status = "PENDING" /\ x.reservedAt < thresholdDate}}

\* An empty result returns 0 at once.
SweepFind ==
  /\ sweep.pc = "idle"
  /\ Overdue(Threshold) # {}
  /\ Busy < MaxBusy
  /\ sweep' = [IdleSweep EXCEPT !.pc = "loop", !.found = Overdue(Threshold),
                                !.todo = Overdue(Threshold),
                                !.base = availableSeats]
  /\ last' = NoEvent
  /\ UNCHANGED <<durable, cache, queue, locks, calls, workers, txs, warm, now, nextId, resent, staleAdmits,
                 isProcessing>>

\* The loop after one reservation: the next one, or return count.
SweepAfter(todo, count) ==
  IF todo = {} THEN IdleSweep
  ELSE [sweep EXCEPT !.pc = "loop", !.todo = todo, !.id = NoId, !.seatId = "-",
                     !.count = count]

SweepReturn(todo, count) ==
  IF todo = {} THEN Event("expireOverdueReservations", count)
  ELSE NoEvent

\* cancelReservation of the next reservation: findUnique and guards; an
\* exception is logged and the loop goes on (lines 348-355).
SweepCancelBegin(id) ==
  /\ sweep.pc = "loop"
  /\ id \in sweep.todo
  /\ IF ReservationGuard(id) = "ok"
       THEN /\ sweep' = [sweep EXCEPT !.pc = "write", !.id = id,
                                      !.seatId = SeatOfReservation(id),
                                      !.todo = @ \ {id}]
            /\ last' = NoEvent
       ELSE /\ sweep' = SweepAfter(sweep.todo \ {id}, sweep.count)
            /\ last' = SweepReturn(sweep.todo \ {id}, sweep.count)
  /\ UNCHANGED <<durable, cache, queue, locks, calls, workers, txs, warm, now, nextId, resent, staleAdmits,
                 isProcessing>>

SweepCancelCommit ==
  /\ sweep.pc = "write"
  /\ Commit(CancelTx(sweep.id, sweep.seatId))
  /\ sweep' = SweepAfter(sweep.todo, sweep.count + 1)
  /\ last' = SweepReturn(sweep.todo, sweep.count + 1)
  /\ UNCHANGED <<cache, queue, locks, calls, workers, txs, warm, now, nextId, resent, staleAdmits,
                 isProcessing>>

\* ------------------------------------------------------------------ getSeats
SeatOrder == <<"s1">>

\* findSeats ordered by seatNumber: the rows read.
GetSeatsFind ==
  /\ warm.pc = "idle"
  /\ Busy < MaxBusy
  /\ warm' = [pc |-> "pipeline",
              rows |-> [i \in 1..Len(SeatOrder) |->
                          <<SeatOrder[i], seats[SeatOrder[i]].status>>]]
  /\ last' = NoEvent
  /\ UNCHANGED <<durable, cache, queue, locks, calls, workers, txs, sweep, now, nextId, resent, staleAdmits,
                 isProcessing>>

\* A variant of the command without NX: SET key status PX 600000.
GetSeatsSet ==
  /\ warm.pc = "pipeline"
  /\ LET s == Head(warm.rows)[1]
         st == Head(warm.rows)[2]
     IN cache' = [cache EXCEPT ![s] = st]
  /\ warm' = IF Len(warm.rows) = 1 THEN IdleWarm
             ELSE [warm EXCEPT !.rows = Tail(@)]
  /\ last' = NoEvent
  /\ UNCHANGED <<durable, queue, locks, calls, workers, txs, sweep, now, nextId, resent, staleAdmits,
                 isProcessing>>

\* One command of the pipeline: SET key status PX 600000 NX.
GetSeatsSetNx ==
  /\ warm.pc = "pipeline"
  /\ LET s == Head(warm.rows)[1]
         st == Head(warm.rows)[2]
     IN cache' = IF cache[s] = "none" THEN [cache EXCEPT ![s] = st] ELSE cache
  /\ warm' = IF Len(warm.rows) = 1 THEN IdleWarm
             ELSE [warm EXCEPT !.rows = Tail(@)]
  /\ last' = NoEvent
  /\ UNCHANGED <<durable, queue, locks, calls, workers, txs, sweep, now, nextId, resent, staleAdmits,
                 isProcessing>>

\* ------------------------------------------------------------ redelivery
\* The client resends a command whose reply was lost with the connection
\* (retryStrategy, maxRetriesPerRequest): an rpush that the store had
\* already executed puts the same intent in the queue a second time.
Redeliver(i) ==
  /\ resent < MaxResend
  /\ i \in 1..Len(queue)
  /\ queue' = Append(queue, queue[i])
  /\ resent' = resent + 1
  /\ last' = NoEvent
  /\ UNCHANGED <<durable, cache, locks, calls, workers, txs, sweep, warm, now, nextId,
                 staleAdmits, isProcessing>>

\* ---------------------------------------------------------- specification
Admission ==
  \/ \E c \in Clients, s \in Seats : ReserveScript(c, s)
  \/ \E c \in Clients : ReserveAcquire(c)
  \/ \E c \in Clients : ReserveDbCheck(c)
  \/ \E c \in Clients : ReserveSetStatus(c)
  \/ \E c \in Clients : ReservePush(c)
  \/ \E c \in Clients : ReserveSetHeld(c)
  \/ \E c \in Clients : ReserveRelease(c)

Expiry ==
  \/ \E s \in Seats : LockExpire(s)
  \/ \E s \in Seats : CacheExpire(s)

Settlement ==
  \/ \E w \in Workers : WorkerPop(w)
  \/ \E w \in Workers : WorkerRead(w)
  \/ \E w \in Workers : WorkerCommit(w)

ConfirmCancel ==
  \/ \E t \in ApiTxs, op \in {"confirmReservation", "cancelReservation"} :
       \E id \in KnownIds : TxBegin(t, op, id)
  \/ \E t \in ApiTxs : TxCommit(t)

Sweeper ==
  \/ Tick
  \/ SweepFind
  \/ \E id \in sweep.todo : SweepCancelBegin(id)
  \/ SweepCancelCommit

WarmUp ==
  \/ GetSeatsFind
  \/ GetSeatsSetNx

Next == Admission \/ Expiry \/ Settlement \/ ConfirmCancel \/ Sweeper \/ WarmUp

Spec == Init /\ [][Next]_vars

\* The admission on a cold cache, the settlement, confirm, cancel and the
\* sweeper, with redelivery.
NextResend ==
  \/ Admission \/ Settlement \/ ConfirmCancel \/ Sweeper
  \/ \E i \in 1..Len(queue) : Redeliver(i)

SpecResend == Init /\ [][NextResend]_vars

\* Admission and settlement with store errors: the script call, the
\* commands of the locked path, the release of the lock and the statements
\* of the settlement transaction may fail, and a request may name a seat
\* that has no row.
Faults ==
  \/ \E c \in Clients, s \in Seats : ReserveScriptError(c, s)
  \/ \E c \in Clients : ReserveScript(c, MissingSeat)
  \/ \E c \in Clients : ReserveStoreError(c)
  \/ \E c \in Clients : ReserveReleaseFails(c)
  \/ \E w \in Workers : WorkerStoreError(w)

NextFaults ==
  \/ Admission \/ Settlement \/ Faults
  \/ \E s \in SeatIds : LockExpire(s)

SpecFaults == Init /\ [][NextFaults]_vars

\* Admission on a cold cache and settlement with crashes of lock holders,
\* under the scheduling the runtime gives: every pending await of a call
\* or of a settlement run resolves, the 100 ms interval starts ticks while
\* intents are queued, and the store expires a lock when its TTL is over.
NextLive ==
  \/ Admission \/ Settlement
  \/ \E c \in Clients : ReserveCrash(c)
  \/ \E s \in Seats : LockExpire(s)

CallStep(c) ==
  \/ ReserveAcquire(c) \/ ReserveDbCheck(c) \/ ReserveSetStatus(c)
  \/ ReservePush(c) \/ ReserveSetHeld(c) \/ ReserveRelease(c)

Fairness ==
  /\ \A c \in Clients : WF_vars(CallStep(c))
  /\ \A w \in Workers :
       SF_vars(WorkerPop(w)) /\ WF_vars(WorkerRead(w)) /\ WF_vars(WorkerCommit(w))
  /\ \A s \in Seats : WF_vars(LockExpire(s))

SpecLive == Init /\ [][NextLive]_vars /\ Fairness

\* ------------------------------------------------------------ properties
\* The steps in which a settlement run ends, and in which its transaction
\* commits or rolls back.
WorkerEnds(w) ==
  workers[w].pc \in {"read", "write"} /\ workers'[w].pc \in {"idle", "pop"}
WorkerWrites(w) == workers[w].pc = "write" /\ workers'[w].pc \in {"idle", "pop"}
AllIdle == \A w \in Workers : workers[w].pc = "idle"
HasRow(id) == \E r \in reservations : r.id = id
SettleEvent(out) == Event("processNextReservation", out)

\* C1: under every interleaving of reserveSeat calls, lock expiry and
\* settlement workers, a seat never has two Reservation rows that are not
\* CANCELLED.
C1_AtMostOneClaim ==
  \A s \in Seats :
    Cardinality({r \in reservations : r.seatId = s /\ r.status # "CANCELLED"}) <= 1

\* C1: two intents for the seat were queued, two workers read the seat as
\* AVAILABLE, one committed and the other found zero rows to update.
C1_TwoIntentsOneWinner ==
  /\ nextId = 3
  /\ queue = <<>>
  /\ last = SettleEvent("ConflictOcc")
  /\ \E r \in reservations : r.status = "PENDING"

\* A call on the locked path that has appended its intent.
Appended(c) ==
  \/ calls[c].pc = "sethold"
  \/ calls[c].pc = "release" /\ calls[c].seen = "AVAILABLE"

\* C2: of two reserveSeat calls racing on a seat that is AVAILABLE in the
\* durable store, one appends an intent and returns PENDING and the other
\* appends nothing: a call that was in flight when a call for its seat
\* returned PENDING, on a seat whose row was never changed, has appended
\* no intent.
C2_LoserAppendsNothing ==
  \A c \in Clients :
    (calls[c].rival /\ seats[calls[c].seatId] = [status |-> "AVAILABLE", version |-> 0])
      => ~Appended(c)

\* No two Reservation rows share an id.
RowIdsUnique == \A r1, r2 \in reservations : r1.id = r2.id => r1 = r2

\* C3: a settlement run on an intent whose id already has a Reservation
\* row changes nothing in the durable store (no second row, no second
\* decrement), and no two rows share an id.
C3_SecondProcessingChangesNothing ==
  [][/\ \A w \in Workers :
          (WorkerEnds(w) /\ HasRow(workers[w].data.id)) => UNCHANGED durable
     /\ RowIdsUnique']_vars

\* C3: the one intent was queued twice and processed twice: its row exists
\* and the second run was rolled back.
C3_ProcessedTwice ==
  /\ nextId = 2
  /\ resent = 1
  /\ queue = <<>>
  /\ AllIdle
  /\ reservations # {}
  /\ last.op = "processNextReservation"
  /\ last.out # "ok"

\* C4: the settlement of an intent that the script admitted through an
\* AVAILABLE cache entry while the seat was HELD or OCCUPIED in the durable
\* store is rejected: seat rows, reservation rows and availableSeats are
\* unchanged.
C4_StaleAdmitRejected ==
  [][\A w \in Workers :
       (WorkerEnds(w) /\ workers[w].data.id \in staleAdmits)
         => /\ UNCHANGED durable
            /\ last'.op = "processNextReservation"
            /\ last'.out # "ok"]_vars

\* C4: the second intent was admitted through a stale cache entry and its
\* settlement has just been rejected on the status read.
C4_StaleAdmitProcessed ==
  /\ nextId = 3
  /\ queue = <<>>
  /\ AllIdle
  /\ Cardinality(staleAdmits) = 1
  /\ \E r \in reservations : r.id \notin staleAdmits
  /\ last = SettleEvent("ConflictStatus")

\* C5: every step that changes a seat's durable status increases its
\* version by exactly 1, and no step decreases a version.
C5_VersionStepsByOne ==
  [][\A s \in Seats :
       /\ seats'[s].status # seats[s].status
            => seats'[s].version = seats[s].version + 1
       /\ seats'[s].version >= seats[s].version]_vars

\* C5: the sweeper has cancelled a settled reservation: two status changes,
\* version 2.
C5_SettledThenExpired ==
  /\ last = Event("expireOverdueReservations", 1)
  /\ \E s \in Seats : seats[s] = [status |-> "AVAILABLE", version |-> 2]

\* The seat row is no longer what the transaction of w read: its version
\* moved, or it is not AVAILABLE.
SeatMoved(w) ==
  LET seat == seats[workers[w].data.seatId]
  IN seat.version # workers[w].version \/ seat.status # "AVAILABLE"

\* C6: when the seat row is not AVAILABLE at the version the settlement
\* transaction read, its conditional update matches zero rows: the
\* transaction ends with the optimistic-lock conflict and the durable store
\* is unchanged; the seat is flipped only on a match.
C6_StaleVersionRejected ==
  [][\A w \in Workers :
       WorkerWrites(w) =>
         /\ SeatMoved(w) => (UNCHANGED durable /\ last' = SettleEvent("ConflictOcc"))
         /\ ~SeatMoved(w) => last' # SettleEvent("ConflictOcc")]_vars

\* C6: a transaction has just been rejected by the conditional update, on
\* a seat that another transaction changed after the read.
C6_OccConflictSeen ==
  /\ last = SettleEvent("ConflictOcc")
  /\ \E s \in Seats : seats[s].version >= 1

\* The status changes of a seat that the design allows.
LegalEdges ==
  {<<"AVAILABLE", "HELD">>, <<"HELD", "OCCUPIED">>, <<"HELD", "AVAILABLE">>}

\* C7: a seat's durable status changes only along AVAILABLE -> HELD,
\* HELD -> OCCUPIED and HELD -> AVAILABLE.
C7_LegalTransitionsOnly ==
  [][\A s \in Seats :
       seats'[s].status # seats[s].status
         => <<seats[s].status, seats'[s].status>> \in LegalEdges]_vars

\* The PENDING row of the intent that reserveSeat appended under this id:
\* the user, the seat and the time the id is tagged with.
RowOfAdmission(id) ==
  [id |-> id, userId |-> id[2], seatId |-> id[3], status |-> "PENDING",
   reservedAt |-> id[4], paidAt |-> <<>>]

\* C8: a settlement transaction either leaves the durable store unchanged
\* or does all three writes: the seat goes to HELD, one PENDING row is
\* created with the id, userId, seatId and reservedAt of the intent as
\* reserveSeat appended it, and availableSeats drops by 1.
C8_SettlementAllOrNothing ==
  [][\A w \in Workers :
       WorkerWrites(w) =>
         LET d == workers[w].data
         IN \/ (UNCHANGED durable /\ last' # SettleEvent("ok"))
            \/ /\ seats[d.seatId].status = "AVAILABLE"
               /\ seats'[d.seatId] = [status |-> "HELD",
                                      version |-> seats[d.seatId].version + 1]
               /\ ~HasRow(d.id)
               /\ reservations' = reservations \cup {RowOfAdmission(d.id)}
               /\ availableSeats' = availableSeats - 1
               /\ last' = SettleEvent("ok")]_vars

\* C8: a settlement has just committed its three writes.
C8_Settled ==
  /\ last = SettleEvent("ok")
  /\ \E r \in reservations : r.status = "PENDING" /\ seats[r.seatId].status = "HELD"

\* The step in which the transaction of a confirmReservation call commits.
ConfirmCommits(t) ==
  txs[t].pc = "write" /\ txs[t].op = "confirmReservation" /\ txs'[t].pc = "idle"

\* C9: confirmReservation throws NotFound on a missing id and Conflict on
\* a reservation it does not read as PENDING, changing nothing; on one it
\* reads as PENDING its transaction sets the row to CONFIRMED with paidAt,
\* the seat to OCCUPIED with version + 1, and leaves availableSeats.
C9_Confirm ==
  [][/\ \A t \in ApiTxs :
          ConfirmCommits(t) =>
            \E r \in reservations :
              /\ r.id = txs[t].id
              /\ reservations' = (reservations \ {r}) \cup
                   {[r EXCEPT !.status = "CONFIRMED", !.paidAt = <<now>>]}
              /\ seats' = [seats EXCEPT ![r.seatId] =
                             [status |-> "OCCUPIED", version |-> @.version + 1]]
              /\ availableSeats' = availableSeats
              /\ last' = Event("confirmReservation", "ok")
     /\ \A t \in ApiTxs, id \in KnownIds :
          TxBegin(t, "confirmReservation", id) =>
            /\ UNCHANGED durable
            /\ ~HasRow(id) => last' = Event("confirmReservation", "NotFound")
            /\ (\E r \in reservations : r.id = id /\ r.status # "PENDING")
                 => (last' = Event("confirmReservation", "Conflict") /\ txs' = txs)
            /\ (\E r \in reservations : r.id = id /\ r.status = "PENDING")
                 => (txs'[t].pc = "write" /\ txs'[t].id = id)]_vars

\* C9: a confirmation has just committed.
C9_Confirmed ==
  /\ last = Event("confirmReservation", "ok")
  /\ \E r \in reservations :
       r.status = "CONFIRMED" /\ r.paidAt # <<>> /\ seats[r.seatId].status = "OCCUPIED"

\* The step in which a cancelReservation of this id commits, called from
\* the API or from the sweeper.
CancelCommits(id) ==
  \/ \E t \in ApiTxs :
       /\ txs[t].pc = "write" /\ txs[t].op = "cancelReservation"
       /\ txs[t].id = id /\ txs'[t].pc = "idle"
  \/ sweep.pc = "write" /\ sweep.id = id /\ sweep'.pc # "write"

\* C10: every cancel that commits, from the API or from the sweeper, acts
\* on a reservation that is PENDING: it sets the row to CANCELLED, the seat
\* to AVAILABLE with version + 1 and adds exactly 1 to availableSeats, so
\* no cancel is applied twice to one reservation.
C10_CancelAppliedOnce ==
  [][\A r \in reservations :
       CancelCommits(r.id) =>
         /\ r.status = "PENDING"
         /\ reservations' = (reservations \ {r}) \cup {[r EXCEPT !.status = "CANCELLED"]}
         /\ seats' = [seats EXCEPT ![r.seatId] =
                        [status |-> "AVAILABLE", version |-> @.version + 1]]
         /\ availableSeats' = availableSeats + 1]_vars

\* The step in which a run of expireOverdueReservations returns.
SweepReturns == sweep.pc # "idle" /\ sweep'.pc = "idle"

\* C11: when a run of expireOverdueReservations returns, every reservation
\* its findMany found PENDING and older than the threshold is CANCELLED and
\* its seat AVAILABLE, and availableSeats is one higher per such
\* reservation than when the run started (stated for the runs during which
\* no found reservation was confirmed).
C11_ExpiryRestoresAvailability ==
  [][(/\ SweepReturns
      /\ \A r \in reservations' : r.id \in sweep.found => r.status # "CONFIRMED")
       => /\ \A r \in reservations' :
               r.id \in sweep.found
                 => r.status = "CANCELLED" /\ seats'[r.seatId].status = "AVAILABLE"
          /\ availableSeats' = sweep.base + Cardinality(sweep.found)]_vars

\* Nothing claims seat s any more: its reservation is CANCELLED, its row is
\* AVAILABLE, and no intent for it is queued, being settled or being
\* admitted.
SeatFreed(s) ==
  /\ seats[s].status = "AVAILABLE"
  /\ \E r \in reservations : r.seatId = s
  /\ \A r \in reservations : r.seatId = s => r.status = "CANCELLED"
  /\ \A i \in 1..Len(queue) : JsonParse(queue[i]).seatId # s
  /\ \A w \in Workers : workers[w].pc = "idle"
  /\ \A c \in Clients : calls[c].pc = "idle"

\* C12: after a cancel or an expiry has freed a seat, a reserveSeat call
\* for it is not rejected with the cache conflict.
C12_CancelUnblocksAdmission ==
  [][\A s \in Seats :
       SeatFreed(s)
         => ~(\E c \in Clients :
                ReserveScript(c, s) /\ last' = Event("reserveSeat", "ConflictCache"))]_vars

\* C13: on every cache entry the script decides on, the script path and
\* the locked path take the same decision, leave the same cache entry and
\* append the same number of intents.
C13_PathsAgree ==
  \A s \in Seats :
    cache[s] # "none" => ScriptPath(cache[s]) = LockedPath(cache[s], seats[s].status)

\* The step in which the call of c moves on: to its next await, or to its
\* end.
CallMoves(c) == calls'[c].pc # calls[c].pc

\* C14: a reserveSeat call whose script call failed with a store error
\* appends no intent and does not return PENDING.
C14_ScriptErrorIsReported ==
  [][\A c \in Clients :
       (calls[c].fallback /\ CallMoves(c))
         => (queue' = queue /\ last' # Event("reserveSeat", "PENDING"))]_vars

\* C15: when a settlement run fails while intents are queued and the tick
\* is below the batch limit, the tick goes on to the next intent.
C15_TickGoesOnAfterFailure ==
  [][\A w \in Workers :
       (/\ WorkerEnds(w)
        /\ last' # SettleEvent("ok")
        /\ queue # <<>>
        /\ workers[w].i + 1 < BatchLimit)
         => workers'[w].pc = "pop"]_vars

\* Intent id is in the queue.
Queued(id) == \E k \in 1..Len(queue) : JsonParse(queue[k]).id = id

\* C16: an intent whose settlement run ends on a store error is in the
\* queue again when the run returns.
C16_FailedIntentKept ==
  [][\A w \in Workers :
       (WorkerEnds(w) /\ last' = SettleEvent("StoreError"))
         => Queued(workers[w].data.id)']_vars

\* The intent with serial number n is in the queue or in a settlement run.
Waiting(n) ==
  \/ \E k \in 1..Len(queue) : JsonParse(queue[k]).id[1] = n
  \/ \E w \in Workers : workers[w].pc \in {"read", "write"} /\ workers[w].data.id[1] = n

\* C17: every intent in the queue is eventually neither queued nor in a
\* settlement run, and the run that ends on it either commits the row with
\* its id or leaves the durable store unchanged.
C17_IntentsSettleOrDrop ==
  /\ \A n \in 1..MaxIntents : Waiting(n) ~> ~Waiting(n)
  /\ [][\A w \in Workers :
          WorkerEnds(w) =>
            \/ /\ ~HasRow(workers[w].data.id)
               /\ reservations' = reservations \cup {RowOfAdmission(workers[w].data.id)}
               /\ last' = SettleEvent("ok")
            \/ /\ UNCHANGED durable
               /\ last' # SettleEvent("ok")]_vars

\* C17: two intents were appended and both are gone: one became the row,
\* the run on the other was rolled back.
C17_BothIntentsDone ==
  /\ nextId = MaxIntents + 1
  /\ ~\E n \in 1..MaxIntents : Waiting(n)
  /\ AllIdle
  /\ Cardinality(reservations) = 1
  /\ last = SettleEvent("ConflictStatus")

\* The awaits of the locked path between the acquisition and the finally
\* block.
InCriticalSection(c) == calls[c].pc \in {"dbcheck", "setstatus", "push", "sethold"}

\* C18: a reserveSeat call that holds the lock does not end before it has
\* reached the release, and the call ends with the result of its critical
\* section whether the release deleted the lock or failed.
C18_ReleaseOnEveryOutcome ==
  [][\A c \in Clients :
       /\ (InCriticalSection(c) /\ CallMoves(c)) => calls'[c].pc # "idle"
       /\ (calls[c].pc = "release" /\ CallMoves(c))
            => /\ calls'[c] = IdleCall
               /\ last' = Event("reserveSeat", LockedResult(calls[c].seen))
               /\ locks'[calls[c].seatId] \in {NoHolder, locks[calls[c].seatId]}
               /\ UNCHANGED <<durable, cache, queue>>]_vars

\* C18: a call has just thrown the store error of its critical section,
\* and a release has failed: the lock of a call that has ended is still
\* set.
C18_StoreErrorAfterFailedRelease ==
  /\ last = Event("reserveSeat", "StoreError")
  /\ \E s \in SeatIds : locks[s] # NoHolder /\ calls[locks[s]].pc = "idle"

\* C19: a reserveSeat call that finds the lock of its seat set ends at its
\* one acquisition attempt with the lock conflict; the queue, the cache,
\* the locks and the durable store are unchanged.
C19_HeldLockFailsFast ==
  [][\A c \in Clients :
       (/\ calls[c].pc = "acquire"
        /\ locks[calls[c].seatId] # NoHolder
        /\ CallMoves(c))
         => /\ calls'[c] = IdleCall
            /\ last' = Event("reserveSeat", "ConflictLock")
            /\ UNCHANGED <<queue, cache, locks, durable>>]_vars

\* C19: a call has just been rejected on the lock while the holder is in
\* its critical section.
C19_RejectedOnHeldLock ==
  /\ last = Event("reserveSeat", "ConflictLock")
  /\ \E s \in Seats : locks[s] # NoHolder /\ InCriticalSection(locks[s])

\* The lock of seat s is set and no call will release it.
Orphaned(s) ==
  /\ locks[s] # NoHolder
  /\ ~InCriticalSection(locks[s])
  /\ calls[locks[s]].pc # "release"

\* C20: a lock whose holder will never release it is eventually gone, and
\* an acquisition attempt on a seat without a lock takes the lock.
C20_LockTtlSelfHeals ==
  /\ \A s \in Seats : Orphaned(s) ~> (locks[s] = NoHolder)
  /\ [][\A c \in Clients :
          (/\ calls[c].pc = "acquire"
           /\ locks[calls[c].seatId] = NoHolder
           /\ CallMoves(c))
            => (locks'[calls[c].seatId] = c /\ calls'[c].pc = "dbcheck")]_vars

\* C20: user c appended an intent and its call died before it marked the
\* cache; the lock it left has expired and a later call of c holds the
\* lock again.
C20_LockTakenAfterCrash ==
  \E s \in Seats, c \in Clients :
    /\ nextId = 2
    /\ queue # <<>>
    /\ JsonParse(Head(queue)).userId = c
    /\ cache[s] = "none"
    /\ locks[s] = c
    /\ calls[c].pc = "dbcheck"

\* C21: a reserveSeat call for a seat id without a cache entry and without
\* a row moves from the lock to the read of the row and from there to the
\* release; it appends nothing and writes no cache entry, and unless a
\* store call failed it throws NotFoundException, with the lock deleted or
\* left to its TTL by a failed release.
C21_MissingSeatNotFound ==
  [][\A c \in Clients :
       ((calls[c].seatId = MissingSeat \/ calls'[c].seatId = MissingSeat) /\ CallMoves(c))
         => /\ UNCHANGED <<queue, cache, nextId>>
            /\ calls[c].pc = "dbcheck"
                 => (calls'[c].pc = "release" /\ calls'[c].seen \in {"NotFound", "StoreError"})
            /\ (calls[c].pc = "release" /\ calls[c].seen = "NotFound")
                 => /\ calls'[c] = IdleCall
                    /\ last' = Event("reserveSeat", "NotFound")
                    /\ locks'[MissingSeat] # c \/ UNCHANGED locks]_vars

\* C21: a call for the missing seat has just thrown NotFoundException; its
\* lock is gone, and nothing was queued or cached.
C21_NotFoundThrown ==
  /\ last = Event("reserveSeat", "NotFound")
  /\ locks[MissingSeat] = NoHolder
  /\ cache[MissingSeat] = "none"
  /\ queue = <<>>

\* The step is one of reserveSeat, called by c.
ReserveStep(c) ==
  \/ CallMoves(c)
  \/ \E s \in SeatIds : ReserveScript(c, s)

\* The seat of the step of reserveSeat called by c.
ReserveSeatOf(c) ==
  IF calls[c].pc # "idle" THEN calls[c].seatId
  ELSE IF calls'[c].pc # "idle" THEN calls'[c].seatId
  ELSE IF queue' # queue THEN JsonParse(queue'[Len(queue')]).seatId
  ELSE MissingSeat

\* C22: no step of reserveSeat changes seat rows, reservation rows or
\* availableSeats; of the cache only the entry of the requested seat may
\* change, and the queue only grows by the intent of the call.
C22_AdmissionLeavesDurableStore ==
  [][\A c \in Clients :
       ReserveStep(c)
         => /\ UNCHANGED durable
            /\ \A s \in SeatIds : s # ReserveSeatOf(c) => cache'[s] = cache[s]
            /\ \/ queue' = queue
               \/ /\ Len(queue') = Len(queue) + 1
                  /\ SubSeq(queue', 1, Len(queue)) = queue
                  /\ JsonParse(queue'[Len(queue')]).userId = c]_vars

\* C22: a call has just returned PENDING with its intent queued and its
\* seat marked in the cache, and the durable store is as it was created.
C22_PendingWithoutDurableWrite ==
  /\ last = Event("reserveSeat", "PENDING")
  /\ queue # <<>>
  /\ reservations = {}
  /\ \A s \in Seats : seats[s] = [status |-> "AVAILABLE", version |-> 0] /\ cache[s] = "HELD"

\* C23: intents are settled in the order of their append: when a run
\* commits the row of its intent, no intent appended earlier is still
\* queued or in a settlement run.
C23_SettledInAppendOrder ==
  [][\A w \in Workers :
       (WorkerEnds(w) /\ last' = SettleEvent("ok"))
         => ~\E n \in 1..MaxIntents : n < workers[w].data.id[1] /\ Waiting(n)]_vars

\* C24: a reserveSeat call for a seat that is OCCUPIED in the durable store
\* appends no intent and does not return PENDING.
C24_OccupiedSeatNotAdmitted ==
  [][\A s \in Seats, c \in Clients :
       (seats[s].status = "OCCUPIED" /\ ReserveScript(c, s))
         => (queue' = queue /\ last' # Event("reserveSeat", "PENDING"))]_vars

\* C25: of the confirm and cancel calls on one reservation one takes
\* effect: a reservation that is CONFIRMED or CANCELLED stays as it is, and
\* no cancel commits on it.
C25_OneCallTakesEffect ==
  [][\A r \in reservations :
       r.status # "PENDING" => (r \in reservations' /\ ~CancelCommits(r.id))]_vars

\* The step appends an intent of user c.
Appends(c) ==
  /\ Len(queue') = Len(queue) + 1
  /\ JsonParse(queue'[Len(queue')]).userId = c
  /\ calls[c].pc \in {"idle", "push"}

\* C26: a reserveSeat call that started after the call of a queued intent
\* for its seat had returned appends nothing.
C26_OneUnsettledIntentPerSeat ==
  [][\A c \in Clients :
       (/\ Appends(c)
        /\ ~calls[c].rival
        /\ \A d \in Clients \ {c} : calls[d].pc = "idle")
         => ~\E k \in 1..Len(queue) :
               JsonParse(queue[k]).seatId = JsonParse(queue'[Len(queue')]).seatId]_vars

\* C27: the script decides, appends and marks in one step: on an AVAILABLE
\* entry the call returns PENDING with exactly its intent appended and the
\* entry HELD, and on an entry that is HELD or OCCUPIED it throws the cache
\* conflict with the queue and the cache unchanged, so that of the calls
\* that meet one AVAILABLE entry one is admitted.
C27_ScriptAdmitsOne ==
  [][\A c \in Clients, s \in Seats :
       ReserveScript(c, s) =>
         /\ cache[s] = "AVAILABLE"
              => /\ last' = Event("reserveSeat", "PENDING")
                 /\ Len(queue') = Len(queue) + 1
                 /\ cache'[s] = "HELD"
         /\ cache[s] \in {"HELD", "OCCUPIED"}
              => /\ last' = Event("reserveSeat", "ConflictCache")
                 /\ UNCHANGED <<queue, cache, calls>>]_vars

\* C27: the entry was AVAILABLE; one call was admitted and the next has
\* just been rejected on the HELD mark it left.
C27_OneAdmittedOneRejected ==
  /\ last = Event("reserveSeat", "ConflictCache")
  /\ nextId = 2
  /\ Len(queue) = 1
  /\ \E s \in Seats : cache[s] = "HELD" /\ seats[s] = [status |-> "AVAILABLE", version |-> 0]
  /\ warm.pc = "idle"

\* C28: on a seat that is AVAILABLE again after its reservation was
\* cancelled, a settlement transaction that meets the seat as it read it
\* commits the reservation of its intent.
C28_SettlesAfterCancel ==
  [][\A w \in Workers :
       (/\ WorkerWrites(w)
        /\ ~SeatMoved(w)
        /\ ~HasRow(workers[w].data.id)
        /\ \E r \in reservations : r.seatId = workers[w].data.seatId
        /\ \A r \in reservations :
             r.seatId = workers[w].data.seatId => r.status = "CANCELLED")
         => last' = SettleEvent("ok")]_vars

\* C29: availableSeats is the number of seats that are AVAILABLE in the
\* durable store.
C29_AvailableSeatsCountsSeats ==
  availableSeats = Cardinality({s \in Seats : seats[s].status = "AVAILABLE"})

\* C30: a seat is HELD exactly when it has a PENDING reservation and
\* OCCUPIED exactly when it has a CONFIRMED one; an AVAILABLE seat has
\* neither.
C30_SeatMatchesReservation ==
  \A s \in Seats :
    LET has(st) == \E r \in reservations : r.seatId = s /\ r.status = st
    IN /\ seats[s].status = "HELD" <=> has("PENDING")
       /\ seats[s].status = "OCCUPIED" <=> has("CONFIRMED")
       /\ seats[s].status = "AVAILABLE" => ~has("PENDING") /\ ~has("CONFIRMED")

\* C30: a confirm and a cancel of one reservation have both committed, the
\* confirm last: the reservation is CONFIRMED and its seat OCCUPIED at
\* version 3.
C30_ConfirmedAfterCancel ==
  /\ last = Event("confirmReservation", "ok")
  /\ \E r \in reservations :
       r.status = "CONFIRMED" /\ seats[r.seatId] = [status |-> "OCCUPIED", version |-> 3]

\* C31: a reserveSeat call that ends with an error or a rejection leaves no
\* intent of its own in the queue: a call that has appended its intent goes
\* on to return PENDING, also when the write of HELD to the cache fails.
C31_AppendedCallReturnsPending ==
  [][\A c \in Clients :
       (calls[c].pc = "sethold" /\ CallMoves(c))
         => LockedResult(calls'[c].seen) = "PENDING"]_vars

\* The statuses of a seat that is taken in the durable store.
Taken == {"HELD", "OCCUPIED"}

\* C32: on the locked path a seat that findUnique reads as HELD or OCCUPIED
\* has its cache entry overwritten with that status, whatever the entry
\* held, and the call ends with the ConflictException without appending an
\* intent.
C32_TakenSeatOverwritesEntry ==
  [][\A c \in Clients :
       LET s == calls[c].seatId
       IN /\ (calls[c].pc = "dbcheck" /\ CallMoves(c) /\ seats[s].status \in Taken)
               => /\ calls'[c].pc = "setstatus"
                  /\ calls'[c].seen = seats[s].status
                  /\ queue' = queue
          /\ (calls[c].pc = "setstatus" /\ CallMoves(c))
               => /\ calls[c].seen \in Taken
                  /\ cache'[s] = calls[c].seen
                  /\ calls'[c].pc = "release"
                  /\ queue' = queue
          /\ (calls[c].pc = "release" /\ CallMoves(c) /\ calls[c].seen \in Taken)
               => /\ last' = Event("reserveSeat", "ConflictDb")
                  /\ queue' = queue]_vars

\* C32: a call that read the seat as OCCUPIED has replaced the entry and is
\* about to be rejected; nothing is queued.
C32_EntryOverwritten ==
  \E c \in Clients :
    /\ calls[c].pc = "release"
    /\ calls[c].seen = "OCCUPIED"
    /\ cache[calls[c].seatId] = "OCCUPIED"
    /\ seats[calls[c].seatId].status = "OCCUPIED"
    /\ queue = <<>>

\* A command of the getSeats pipeline is executed.
WarmUpWrites == warm.pc = "pipeline" /\ warm' # warm

\* C33: the warm-up of getSeats creates only entries that are missing: an
\* entry that exists keeps its value, so a HELD mark is never replaced by
\* the AVAILABLE that getSeats read from the durable store.
C33_WarmUpKeepsEntries ==
  [][WarmUpWrites => \A s \in SeatIds : cache[s] # "none" => cache'[s] = cache[s]]_vars

\* C33: getSeats has read the seat as AVAILABLE and an admission has marked
\* it HELD before the pipeline command runs.
C33_WarmUpMeetsHeldMark ==
  /\ warm.pc = "pipeline"
  /\ Head(warm.rows) = <<"s1", "AVAILABLE">>
  /\ cache["s1"] = "HELD"
  /\ Len(queue) = 1

\* The transaction of w passes the status guard and goes on to its writes.
WorkerReads(w) == workers[w].pc = "read" /\ workers'[w].pc = "write"

\* C34: the version the conditional update of the settlement compares
\* against is the one its own transaction read, not one carried by the
\* queue entry: an intent that was admitted while the seat had another
\* version (it was HELD or OCCUPIED then) is not rejected by the version
\* check when the seat is AVAILABLE at the version the transaction read.
C34_VersionReadInTransaction ==
  [][\A w \in Workers :
       /\ WorkerReads(w)
            => workers'[w].version = seats[workers[w].data.seatId].version
       /\ (WorkerWrites(w) /\ workers[w].data.id \in staleAdmits /\ ~SeatMoved(w))
            => last' \in {SettleEvent("ok"), SettleEvent("UniqueViolation")}]_vars

\* C34: an intent admitted while the seat was HELD at version 1 has been
\* processed with the seat AVAILABLE at version 2: the conditional update
\* matched and the transaction went on to the insert.
C34_SettledAtLaterVersion ==
  /\ last \in {SettleEvent("ok"), SettleEvent("UniqueViolation")}
  /\ staleAdmits # {}
  /\ queue = <<>>
  /\ nextId = 3
  /\ AllIdle
  /\ \E s \in Seats : seats[s] = [status |-> "AVAILABLE", version |-> 2]

\* The cancelReservation of the sweeper commits its writes.
SweepWrites == sweep.pc = "write" /\ sweep'.pc # "write"

\* What expireOverdueReservations selects: PENDING and reserved before the
\* threshold.
Eligible(r) == r.status = "PENDING" /\ r.reservedAt < Threshold

\* C35: expireOverdueReservations changes only reservations that are
\* PENDING and reserved before the threshold: a reservation that is
\* CONFIRMED or CANCELLED, or PENDING and not overdue, keeps its row, its
\* seat and its share of availableSeats, also when a user confirms or
\* cancels it between the query of the sweeper and its cancel.
C35_SweeperTouchesOverdueOnly ==
  [][SweepWrites =>
       \A r \in reservations :
         ~Eligible(r) =>
           /\ r \in reservations'
           /\ seats'[r.seatId] = seats[r.seatId]
           /\ r.id = sweep.id => availableSeats' = availableSeats]_vars

\* C38: the release of a call whose lock has expired does not release the
\* lock that a later caller acquired: the later holder keeps it until its
\* own release or the TTL.
C38_LateReleaseKeepsLaterLock ==
  [][\A c \in Clients :
       (/\ calls[c].pc = "release"
        /\ CallMoves(c)
        /\ locks[calls[c].seatId] \notin {c, NoHolder})
         => UNCHANGED locks]_vars

\* C38: a call whose lock expired has just released and returned PENDING
\* while a later caller is in the critical section with the lock of the
\* same seat.
C38_LaterHolderStillLocked ==
  /\ last = Event("reserveSeat", "PENDING")
  /\ Len(queue) = 1
  /\ \E s \in Seats :
       /\ locks[s] \in Clients
       /\ InCriticalSection(locks[s])
       /\ \A c \in Clients \ {locks[s]} : calls[c].pc = "idle"

\* ------------------------------------------------ the sweep of two seats
\* A performance with two seats: both were reserved at minute 0 and their
\* intents settled, so each seat is HELD at version 1 with a PENDING
\* reservation and a HELD cache entry.
SweepSeats == {"s1", "s2"}

SweepUser(s) == IF s = "s1" THEN "u1" ELSE "u2"
SweepSerial(s) == IF s = "s1" THEN 1 ELSE 2

InitSweep ==
  /\ seats = [s \in SweepSeats |-> [status |-> "HELD", version |-> 1]]
  /\ availableSeats \in {0 - Cardinality(SweepSeats), 0}
  /\ reservations =
       {NewReservation(JsonParse(JsonStringify(
          [id |-> Uuid(SweepSerial(s), SweepUser(s), s, 0), userId |-> SweepUser(s),
           seatId |-> s, reservedAt |-> ToISOString(0)]))) : s \in SweepSeats}
  /\ cache = [s \in SweepSeats \cup {MissingSeat} |->
                IF s \in SweepSeats THEN "HELD" ELSE "none"]
  /\ queue = <<>>
  /\ locks = [s \in SweepSeats \cup {MissingSeat} |-> NoHolder]
  /\ calls = [c \in Clients |-> IdleCall]
  /\ workers = [w \in Workers |-> IdleWorker]
  /\ txs = [t \in ApiTxs |-> IdleTx]
  /\ sweep = IdleSweep
  /\ warm = IdleWarm
  /\ last = NoEvent
  /\ now = 0
  /\ nextId = Cardinality(SweepSeats) + 1
  /\ resent = 0
  /\ staleAdmits = {}
  /\ isProcessing = FALSE

\* A variant of the loop without the try/catch around cancelReservation:
\* the exception ends the run.
SweepCancelErrorAborts(id) ==
  /\ \/ sweep.pc = "loop" /\ id \in sweep.todo
     \/ sweep.pc = "write" /\ id = sweep.id
  /\ sweep' = IdleSweep
  /\ last' = Event("expireOverdueReservations", "StoreError")
  /\ UNCHANGED <<durable, cache, queue, locks, calls, workers, txs, warm, now, nextId,
                 resent, staleAdmits, isProcessing>>

\* cancelReservation fails with a store error, in its findUnique or in its
\* transaction, which is rolled back: the error is logged, count is not
\* incremented and the loop goes on (lines 348-355).
SweepCancelError(id) ==
  /\ \/ sweep.pc = "loop" /\ id \in sweep.todo
     \/ sweep.pc = "write" /\ id = sweep.id
  /\ sweep' = SweepAfter(sweep.todo \ {id}, sweep.count)
  /\ last' = SweepReturn(sweep.todo \ {id}, sweep.count)
  /\ UNCHANGED <<durable, cache, queue, locks, calls, workers, txs, warm, now, nextId,
                 resent, staleAdmits, isProcessing>>

\* The sweeper with failing cancels, next to the confirms and cancels of
\* the users.
NextSweep ==
  \/ Sweeper
  \/ ConfirmCancel
  \/ \E id \in KnownIds : SweepCancelError(id)

SpecSweep == InitSweep /\ [][NextSweep]_vars

\* The sweeper is done with one reservation of its result.
SweepMoves == sweep.pc \in {"loop", "write"} /\ sweep' # sweep

\* The reservations of the result that the loop has not handled yet, the
\* one in hand included.
SweepLeft == Cardinality(sweep.todo) + (IF sweep.pc = "write" THEN 1 ELSE 0)

\* count after the step: the value returned when the run ends with it.
CountAfter == IF sweep'.pc = "idle" THEN last'.out ELSE sweep'.count

\* C36: a cancel that fails does not stop the sweep: the loop goes on with
\* the rest of the result and the run returns only when none is left, and
\* the count returned is the number of cancels that committed.
C36_SweepGoesOnAfterFailure ==
  [][SweepMoves =>
       /\ sweep'.pc # "write" => (sweep'.pc = "idle" <=> SweepLeft = 1)
       /\ sweep'.pc = "idle" => last'.op = "expireOverdueReservations"
       /\ (sweep.pc = "loop" /\ sweep'.pc = "write") => sweep'.count = sweep.count
       /\ (sweep'.pc # "write" /\ durable' # durable) => CountAfter = sweep.count + 1
       /\ (sweep'.pc # "write" /\ durable' = durable) => CountAfter = sweep.count
       /\ sweep'.pc # "idle" => sweep'.todo \subseteq sweep.todo]_vars

\* C36: a run that found both reservations has returned 1: one cancel
\* failed and left its reservation PENDING, the other reservation is
\* CANCELLED.
C36_OneFailedOneCancelled ==
  /\ last = Event("expireOverdueReservations", 1)
  /\ \E r \in reservations : r.status = "PENDING"
  /\ \E r \in reservations : r.status = "CANCELLED"

\* --------------------------------------------- the guarded scheduler
\* handleReservationQueue with the reentrancy flag: the ticks of one
\* process.  A tick that finds isProcessing set returns at once; else it
\* sets the flag before its first await.
Skipped == Event("handleReservationQueue", "skipped")

\* A variant of the tick without the test of the flag.
GuardedTickNoGuard(w) ==
  /\ workers[w].pc = "idle"
  /\ Busy < MaxBusy
  /\ isProcessing' = TRUE
  /\ workers' = [workers EXCEPT ![w].pc = "pop"]
  /\ last' = NoEvent
  /\ UNCHANGED <<durable, cache, queue, locks, calls, txs, sweep, warm, now, nextId,
                 resent, staleAdmits>>

\* The @Interval(100) callback up to its first await.
GuardedTick(w) ==
  /\ workers[w].pc = "idle"
  /\ Busy < MaxBusy
  /\ IF isProcessing
       THEN /\ last' = Skipped
            /\ UNCHANGED <<workers, isProcessing>>
       ELSE /\ isProcessing' = TRUE
            /\ workers' = [workers EXCEPT ![w].pc = "pop"]
            /\ last' = NoEvent
  /\ UNCHANGED <<durable, cache, queue, locks, calls, txs, sweep, warm, now, nextId,
                 resent, staleAdmits>>

\* The finally block: the flag is cleared when the step ends the tick.
Finally(w) ==
  isProcessing' = IF workers'[w].pc = "idle" THEN FALSE ELSE isProcessing

\* The runs of processNextReservation inside a guarded tick: lpop, the
\* read, the commit and a store error, as in WorkerPop, WorkerRead,
\* WorkerCommit and WorkerStoreError.
GuardedPop(w) ==
  /\ workers[w].pc = "pop"
  /\ IF queue = <<>>
       THEN /\ workers' = [workers EXCEPT ![w] = AfterRun(w, FALSE)]
            /\ UNCHANGED queue
       ELSE /\ queue' = Tail(queue)
            /\ workers' = [workers EXCEPT ![w] =
                             [pc |-> "read", data |-> JsonParse(Head(queue)),
                              version |-> 0, i |-> workers[w].i]]
  /\ Finally(w)
  /\ last' = NoEvent
  /\ UNCHANGED <<durable, cache, locks, calls, txs, sweep, warm, now, nextId, resent,
                 staleAdmits>>

GuardedRead(w) ==
  /\ workers[w].pc = "read"
  /\ LET seat == seats[workers[w].data.seatId]
     IN IF seat.status # "AVAILABLE"
          THEN /\ workers' = [workers EXCEPT ![w] = AfterRun(w, FALSE)]
               /\ last' = Event("processNextReservation", "ConflictStatus")
          ELSE /\ workers' = [workers EXCEPT ![w].pc = "write",
                                             ![w].version = seat.version]
               /\ last' = NoEvent
  /\ Finally(w)
  /\ UNCHANGED <<durable, cache, queue, locks, calls, txs, sweep, warm, now, nextId,
                 resent, staleAdmits>>

GuardedCommit(w) ==
  /\ workers[w].pc = "write"
  /\ LET r == SettleTx(workers[w].data, workers[w].version)
     IN /\ Commit(r)
        /\ last' = Event("processNextReservation", r.out)
        /\ workers' = [workers EXCEPT ![w] = AfterRun(w, r.out = "ok")]
  /\ Finally(w)
  /\ UNCHANGED <<cache, queue, locks, calls, txs, sweep, warm, now, nextId, resent,
                 staleAdmits>>

GuardedStoreError(w) ==
  /\ workers[w].pc \in {"read", "write"}
  /\ workers' = [workers EXCEPT ![w] = AfterRun(w, FALSE)]
  /\ last' = Event("processNextReservation", "StoreError")
  /\ Finally(w)
  /\ UNCHANGED <<durable, cache, queue, locks, calls, txs, sweep, warm, now, nextId,
                 resent, staleAdmits>>

\* Admission on a cold cache and the ticks of one process with the
\* guarded scheduler.
NextGuarded ==
  \/ Admission
  \/ \E s \in Seats : LockExpire(s)
  \/ \E w \in Workers : GuardedTick(w)
  \/ \E w \in Workers : GuardedPop(w)
  \/ \E w \in Workers : GuardedRead(w)
  \/ \E w \in Workers : GuardedCommit(w)
  \/ \E w \in Workers : GuardedStoreError(w)

SpecGuarded == Init /\ [][NextGuarded]_vars

\* The ticks that are between their start and their end.
Running == {w \in Workers : workers[w].pc # "idle"}

\* C37: within one process the settlement ticks never overlap: a tick that
\* starts while another is running returns without dequeuing, and the flag
\* is set exactly while a tick runs, so it is clear again after a tick
\* ends, by a run that returned true, false or failed.
C37_TicksNeverOverlap ==
  [][/\ Cardinality(Running') <= 1
     /\ isProcessing' <=> Running' # {}
     /\ \A w \in Workers :
          (workers[w].pc = "idle" /\ workers'[w].pc # "idle") => Running = {}
     /\ last' = Skipped
          => /\ Running # {}
             /\ UNCHANGED <<queue, workers, durable>>]_vars

\* C37: a tick has just been skipped while another tick is in its
\* transaction and an intent is still queued.
C37_TickSkipped ==
  /\ last = Skipped
  /\ queue # <<>>
  /\ \E w \in Workers : workers[w].pc = "write"

====
